---- MODULE Spec2Model ----
(***************************************************************************)
(* Circle packing engine and region classifier of the colour-vision test   *)
(* generator: ColorVisionGenerator._generateCircles and the CirclePlacer   *)
(* helpers it calls.                                                       *)
(*                                                                         *)
(* Number representation.  The program computes with JavaScript doubles.   *)
(* Here every length (coordinate, radius, margin, padding, canvas size) is *)
(* an integer number of hundredths of a pixel, and tolerance is an integer *)
(* number of thousandths.  Comparisons between a square root and a sum are *)
(* made on the squares, ratios are compared by cross multiplication, and   *)
(* Math.floor(v) of a length v is v \div 100 (a pixel index).              *)
(* Math.random() is a draw k / RandomSteps with k in 0 .. RandomSteps - 1, *)
(* so 0 can be drawn and 1 cannot, as in the program.                      *)
(***************************************************************************)
EXTENDS Integers, Sequences, FiniteSets, TLC

VARIABLES
    cfg,               \* which option record this generator was built with
    pc,                \* "loop": in the while loop; "classifying": inside
                       \* determineCircleColor; "done": circles returned
    circles,           \* the array `circles` of _generateCircles
    attempts,          \* the local `attempts`
    currentMaxRadius,  \* the local `currentMaxRadius`
    iterations,        \* history: loop bodies entered so far (saturating)
    last               \* history: the candidate of the latest loop body

vars == <<cfg, pc, circles, attempts, currentMaxRadius, iterations, last>>

\* CanvasUtils.createLuminanceMap
VARIABLES
    imageData,         \* the bytes `imageData.data` of the text canvas
    luminanceMaps      \* threshold -> the map createLuminanceMap returned

lumVars == <<imageData, luminanceMaps>>

\* TextProcessor, as generate calls it
VARIABLES
    text,              \* the argument `text`, a sequence of characters
    fitCase,           \* maxWidth, maxHeight, initialFontSize and the font
    fitPc,             \* "fit", "measure", "return", "log", "render", "end"
    words,             \* the local `words` of calculateOptimalFontSize
    fitIsMultiLine,    \* the local `isMultiLine` of calculateOptimalFontSize
    adjustedFontSize,  \* the local `adjustedFontSize`
    tried,             \* history: <<size, fits>> of every measurement
    logged,            \* what TextProcessor.isMultiLine(text) returned
    drawn              \* the strings renderText passed to fillText, in order

fitVars == <<text, fitCase, fitPc, words, fitIsMultiLine, adjustedFontSize,
             tried, logged, drawn>>

\* the constructor of ColorVisionGenerator
VARIABLES
    ctorArgs,          \* the argument `options` of the constructor
    thisOptions,       \* this.options: onColor, offColor, palette
    warnings,          \* the palette names console.warn reported
    ctorPc             \* "new", "palette", "constructed"

ctorVars == <<ctorArgs, thisOptions, warnings, ctorPc>>

\* one call of CirclePlacer.determineCircleColor after the other
VARIABLES
    clsArgs,           \* the arguments x, y, radius of the calls
    clsMap,            \* the argument `luminanceMap`
    clsPc,             \* "caller": before or after a call; "rows": in the loops
    row,               \* how many values of dy the outer loop has finished
    clsInPixels,       \* the local `inPixels`
    clsTotalPixels,    \* the local `totalPixels`
    results            \* what the calls so far returned, in order

clsVars == <<clsArgs, clsMap, clsPc, row, clsInPixels, clsTotalPixels,
             results>>

\* invocations of ColorVisionGenerator.generate
VARIABLES
    instanceOf,        \* the generator each invocation is called on
    instOptions,       \* this.options of every generator
    currentText,       \* this.currentText of every generator
    running,           \* the invocation whose body is executing, or 0
    frames,            \* per invocation: position, argument `text`, and the
                       \* locals luminanceMap, circles, attempts,
                       \* currentMaxRadius
    loggedText,        \* history: the text _generateCircles read and logged
    accepted,          \* history: the circles each invocation accepted
    ioFailed,          \* history: the I/O call that threw, per invocation
    outcome            \* what the promise of each invocation settled with

genVars == <<instanceOf, instOptions, currentText, running, frames,
             loggedText, accepted, ioFailed, outcome>>

\* the variables of the components a specification does not run
LumIdle == imageData = << >> /\ luminanceMaps = << >>

FitIdle ==
    /\ text = << >> /\ fitCase = 0 /\ fitPc = "end" /\ words = << >>
    /\ fitIsMultiLine = FALSE /\ adjustedFontSize = 0 /\ tried = {}
    /\ logged = FALSE /\ drawn = << >>

CtorIdle ==
    /\ ctorArgs = << >> /\ thisOptions = << >> /\ warnings = << >>
    /\ ctorPc = "constructed"

ClsIdle ==
    /\ clsArgs = << >> /\ clsMap = << >> /\ clsPc = "caller" /\ row = 0
    /\ clsInPixels = 0 /\ clsTotalPixels = 0 /\ results = << >>

GenIdle ==
    /\ instanceOf = << >> /\ instOptions = << >> /\ currentText = << >>
    /\ running = 0 /\ frames = << >> /\ loggedText = << >>
    /\ accepted = << >> /\ ioFailed = << >> /\ outcome = << >>

allVars == <<vars, lumVars, fitVars, ctorVars, clsVars, genVars>>

\* the variables _generateCircles does not touch
otherVars == <<lumVars, fitVars, ctorVars, clsVars, genVars>>
OthersIdle == LumIdle /\ FitIdle /\ CtorIdle /\ ClsIdle /\ GenIdle

\* the variables createLuminanceMap does not touch
lumRest == <<vars, fitVars, ctorVars, clsVars, genVars>>
LumRestIdle == FitIdle /\ CtorIdle /\ ClsIdle /\ GenIdle

\* the variables TextProcessor does not touch
fitRest == <<vars, lumVars, ctorVars, clsVars, genVars>>
FitRestIdle == LumIdle /\ CtorIdle /\ ClsIdle /\ GenIdle

\* the variables the constructor does not touch
ctorRest == <<vars, lumVars, fitVars, clsVars, genVars>>
CtorRestIdle == LumIdle /\ FitIdle /\ ClsIdle /\ GenIdle

\* the variables generate does not touch
genRest == <<vars, lumVars, fitVars, ctorVars, clsVars>>
GenRestIdle == LumIdle /\ FitIdle /\ CtorIdle /\ ClsIdle

\* the variables determineCircleColor does not touch
clsRest == <<vars, lumVars, fitVars, ctorVars, genVars>>
ClsRestIdle == LumIdle /\ FitIdle /\ CtorIdle /\ GenIdle

----------------------------------------------------------------------------
(* Bounds of the model *)

\* Math.random() takes the values 0/RandomSteps .. (RandomSteps-1)/RandomSteps
RandomSteps == 3

\* the history counter `iterations` stops counting here
IterationsCap == 4

(* Constants of the program *)

\* attempts > 1000 triggers the radius reduction
FailureLimit == 1000

\* Math.max(8, radius): samples per radius in determineCircleColor
MinSamples == 8

----------------------------------------------------------------------------
(* Option records.  DEFAULT_OPTIONS scaled to a small canvas; each run     *)
(* overrides some fields, as `{ ...DEFAULT_OPTIONS, ...options }` does.    *)

Min(a, b) == IF a <= b THEN a ELSE b
Max(a, b) == IF a >= b THEN a ELSE b

\* the boolean map createLuminanceMap returns for a canvas of w x h pixels:
\* "none" no text pixel, "all" every pixel, "right" the pixels px >= at
LuminanceMap(kind, at, w, h) ==
    [py \in 0 .. (h \div 100) - 1 |->
        [px \in 0 .. (w \div 100) - 1 |->
            CASE kind = "none"  -> FALSE
              [] kind = "all"   -> TRUE
              [] kind = "right" -> px >= at]]

DEFAULT_OPTIONS ==
    [width |-> 800, height |-> 500, minRadius |-> 100, maxRadius |-> 200,
     onColor |-> "#FF6B35", offColor |-> "#4ECDC4", tolerance |-> 100, padding |-> 0,
     maxAttempts |-> 2, margin |-> 100, circular |-> FALSE,
     mask |-> "right", maskAt |-> 4]

\* a canvas of 4 x 4 pixels without margin
SMALL_CANVAS ==
    [DEFAULT_OPTIONS EXCEPT !.width = 400, !.height = 400, !.margin = 0,
                            !.maskAt = 2, !.maxAttempts = 1]

Runs ==
    << \* 1: rectangular, text on the right half, default tolerance
       DEFAULT_OPTIONS,
       \* 2: maxAttempts = 0
       [DEFAULT_OPTIONS EXCEPT !.maxAttempts = 0],
       \* 3: circular plate, every pixel text, circles 1.5 pixels apart
       [DEFAULT_OPTIONS EXCEPT !.height = 800, !.circular = TRUE,
                               !.mask = "all", !.padding = 150,
                               !.maxAttempts = 1],
       \* 4, 5: no text pixel, tolerance 0 and 1
       [SMALL_CANVAS EXCEPT !.mask = "none", !.tolerance = 0],
       [SMALL_CANVAS EXCEPT !.mask = "none", !.tolerance = 1000],
       \* 6, 7: every pixel text, tolerance 0 and 1
       [SMALL_CANVAS EXCEPT !.mask = "all", !.tolerance = 0],
       [SMALL_CANVAS EXCEPT !.mask = "all", !.tolerance = 1000],
       \* 8: text on the right half, tolerance 0
       [DEFAULT_OPTIONS EXCEPT !.tolerance = 0, !.maxAttempts = 1],
       \* 9: 30 x 30 canvas, radius 8.5, tolerance 0.5
       [DEFAULT_OPTIONS EXCEPT !.width = 3000, !.height = 3000, !.margin = 0,
                               !.minRadius = 850, !.maxRadius = 850,
                               !.tolerance = 500, !.maskAt = 10,
                               !.maxAttempts = 1],
       \* 10: minRadius = 0 with padding = 0, on 2 x 2 pixels
       [SMALL_CANVAS EXCEPT !.width = 200, !.height = 200, !.minRadius = 0,
                            !.maxRadius = 150, !.mask = "none"],
       \* 11: budget above the failure limit, room for one circle
       [SMALL_CANVAS EXCEPT !.minRadius = 134, !.maxRadius = 236,
                            !.mask = "none", !.maxAttempts = 1002],
       \* 12: canvas too small for any circle, minRadius 100, maxRadius 101.5
       [SMALL_CANVAS EXCEPT !.minRadius = 10000, !.maxRadius = 10150,
                            !.mask = "none", !.maxAttempts = 1002],
       \* 13: maxAttempts = 0 on a circular plate, every pixel text
       [SMALL_CANVAS EXCEPT !.circular = TRUE, !.mask = "all",
                            !.maxAttempts = 0],
       \* 14: as 12 with maxRadius 105: two radius reductions
       [SMALL_CANVAS EXCEPT !.minRadius = 10000, !.maxRadius = 10500,
                            !.mask = "none", !.maxAttempts = 1002],
       \* 15: as 12 with a budget equal to the failure limit
       [SMALL_CANVAS EXCEPT !.minRadius = 10000, !.maxRadius = 10150,
                            !.mask = "none", !.maxAttempts = 1000] >>

Options == Runs[cfg]

\* luminanceMap of every run, as generate passes it to _generateCircles
Maps ==
    [c \in DOMAIN Runs |->
        LuminanceMap(Runs[c].mask, Runs[c].maskAt, Runs[c].width, Runs[c].height)]

----------------------------------------------------------------------------
(* CirclePlacer *)

\* the values Math.random() * len can take
Random(len) == { (k * len) \div RandomSteps : k \in 0 .. RandomSteps - 1 }

\* (cos, sin) of the angles Math.random() * 2 * Math.PI the model draws,
\* times 5: the four axis directions and the 3-4-5 diagonals
UnitVectors ==
    { <<5, 0>>, <<0, 5>>, <<-5, 0>>, <<0, -5>>,
      <<3, 4>>, <<-3, 4>>, <<3, -4>>, <<-3, -4>> }

\* the constraints object _generateCircles builds from the options
Constraints(o) ==
    [width |-> o.width, height |-> o.height, margin |-> o.margin,
     circular |-> o.circular, centerX |-> o.width \div 2,
     centerY |-> o.height \div 2, padding |-> o.padding]

\* Math.min(width, height) / 2 - margin
CircleRadius(k) == Min(k.width, k.height) \div 2 - k.margin

\* the positions generateRandomPosition can return
generateRandomPosition(k) ==
    IF k.circular
    THEN { [x |-> k.centerX + (v[1] * distance) \div 5,
            y |-> k.centerY + (v[2] * distance) \div 5] :
               v \in UnitVectors, distance \in Random(CircleRadius(k)) }
    ELSE { [x |-> k.margin + dx, y |-> k.margin + dy] :
               dx \in Random(k.width - k.margin * 2),
               dy \in Random(k.height - k.margin * 2) }

\* Math.sqrt(d2) < s, for an integer d2 >= 0
SqrtLess(d2, s) == s > 0 /\ d2 < s * s

\* Math.sqrt(d2) + radius > limit
SqrtPlusGreater(d2, radius, limit) ==
    limit - radius < 0 \/ d2 > (limit - radius) * (limit - radius)

\* the canvas bounds test of isValidPlacement
OutOfBounds(x, y, radius, k) ==
    \/ x - radius < k.margin
    \/ x + radius > k.width - k.margin
    \/ y - radius < k.margin
    \/ y + radius > k.height - k.margin

\* a variant of OutsideDisk that tests the centre, not the circle's edge
OutsideDiskCenterOnly(x, y, radius, k) ==
    /\ k.circular
    /\   (x - k.centerX) * (x - k.centerX) + (y - k.centerY) * (y - k.centerY)
       > (Min(k.width, k.height) \div 2 - k.margin)
           * (Min(k.width, k.height) \div 2 - k.margin)

\* the circular boundary test of isValidPlacement
OutsideDisk(x, y, radius, k) ==
    /\ k.circular
    /\ SqrtPlusGreater((x - k.centerX) * (x - k.centerX)
                         + (y - k.centerY) * (y - k.centerY),
                       radius, CircleRadius(k))

\* a variant of Overlaps that leaves the existing circle's radius out
OverlapsCenterOnly(x, y, radius, circle, padding) ==
    (x - circle.x) * (x - circle.x) + (y - circle.y) * (y - circle.y)
        < (radius + padding) * (radius + padding)

\* the test of the overlap loop's body for one existing circle
Overlaps(x, y, radius, circle, padding) ==
    SqrtLess((x - circle.x) * (x - circle.x) + (y - circle.y) * (y - circle.y),
             radius + circle.radius + padding)

isValidPlacement(x, y, radius, existingCircles, k) ==
    /\ ~OutOfBounds(x, y, radius, k)
    /\ ~OutsideDisk(x, y, radius, k)
    /\ \A i \in 1 .. Len(existingCircles) :
           ~Overlaps(x, y, radius, existingCircles[i], k.padding)

\* the grid of determineCircleColor: with samples = Math.max(8, radius), the
\* loops visit the offsets -radius + i * radius / samples that are <= radius,
\* i = 0, 1, ...; s is samples in hundredths
SampleSpan(radius) == Max(MinSamples * 100, radius)

SampleIndices(radius) ==
    IF radius < 0 THEN {} ELSE 0 .. (2 * SampleSpan(radius)) \div 100

\* dx * dx + dy * dy <= radius * radius for the offsets of indices i and j
InsideCircle(i, j, s) ==
    (100 * i - s) * (100 * i - s) + (100 * j - s) * (100 * j - s) <= s * s

\* Math.floor(x + dx) for the offset of index i
SamplePixel(x, i, radius, s) == (x * s + radius * (100 * i - s)) \div (100 * s)

\* the samples that count towards totalPixels, as <<px, py>>, one per <<i, j>>
Samples(x, y, radius, mapWidth, mapHeight) ==
    LET s == SampleSpan(radius)
    IN  { ij \in SampleIndices(radius) \X SampleIndices(radius) :
            /\ InsideCircle(ij[1], ij[2], s)
            /\ SamplePixel(x, ij[1], radius, s) >= 0
            /\ SamplePixel(x, ij[1], radius, s) < mapWidth
            /\ SamplePixel(y, ij[2], radius, s) >= 0
            /\ SamplePixel(y, ij[2], radius, s) < mapHeight }

\* <<inPixels, totalPixels>> when the sampling loops end (radius # 0)
CountPixels(x, y, radius, luminanceMap, mapWidth, mapHeight) ==
    LET s     == SampleSpan(radius)
        kept  == Samples(x, y, radius, mapWidth, mapHeight)
        inSet == { ij \in kept :
                     luminanceMap[SamplePixel(y, ij[2], radius, s)]
                                 [SamplePixel(x, ij[1], radius, s)] }
    IN  <<Cardinality(inSet), Cardinality(kept)>>

\* variants of ColorOfRatio: the colours exchanged; the tolerance band with
\* its ends included; the ratio 0.5 counted as text
ColorOfRatioExchanged(inPixels, totalPixels, tolerance, onColor, offColor) ==
    IF totalPixels = 0 THEN "null"
    ELSE IF /\ inPixels * 1000 > tolerance * totalPixels
            /\ inPixels * 1000 < (1000 - tolerance) * totalPixels
         THEN "null"
         ELSE IF 2 * inPixels > totalPixels THEN offColor ELSE onColor

ColorOfRatioClosedBand(inPixels, totalPixels, tolerance, onColor, offColor) ==
    IF totalPixels = 0 THEN "null"
    ELSE IF /\ inPixels * 1000 >= tolerance * totalPixels
            /\ inPixels * 1000 <= (1000 - tolerance) * totalPixels
         THEN "null"
         ELSE IF 2 * inPixels > totalPixels THEN onColor ELSE offColor

ColorOfRatioHalfIsOn(inPixels, totalPixels, tolerance, onColor, offColor) ==
    IF totalPixels = 0 THEN "null"
    ELSE IF /\ inPixels * 1000 > tolerance * totalPixels
            /\ inPixels * 1000 < (1000 - tolerance) * totalPixels
         THEN "null"
         ELSE IF 2 * inPixels >= totalPixels THEN onColor ELSE offColor

\* the part of determineCircleColor after the loops; "null" is no colour
ColorOfRatio(inPixels, totalPixels, tolerance, onColor, offColor) ==
    IF totalPixels = 0 THEN "null"
    ELSE IF /\ inPixels * 1000 > tolerance * totalPixels
            /\ inPixels * 1000 < (1000 - tolerance) * totalPixels
         THEN "null"
         ELSE IF 2 * inPixels > totalPixels THEN onColor ELSE offColor

\* the loops of determineCircleColor never end: the step radius / samples is 0
SamplingDiverges(radius) == radius = 0

----------------------------------------------------------------------------
(* ColorVisionGenerator._generateCircles *)

\* a variant of LoopCondition that runs the body once more
LoopConditionInclusive(att, maxAttempts) == att <= maxAttempts

\* the while condition
LoopCondition(att, maxAttempts) == att < maxAttempts

\* minRadius + Math.random() * (currentMaxRadius - minRadius)
RandomRadius(minRadius, ceiling) ==
    { minRadius + d : d \in Random(ceiling - minRadius) }

\* a variant of Push that puts the circle first
PushFront(cs, c) == <<c>> \o cs

\* circles.push(c)
Push(cs, c) == Append(cs, c)

\* a variant of Struggling that waits for one more failure
StrugglingLate(att, ceiling, minRadius) ==
    att > FailureLimit + 1 /\ ceiling > minRadius + 100

\* a variant of Struggling that starts at the failure limit
StrugglingInclusive(att, ceiling, minRadius) ==
    att >= FailureLimit /\ ceiling > minRadius + 100

\* the condition of the radius reduction; minRadius + 1 is one more pixel
Struggling(att, ceiling, minRadius) ==
    att > FailureLimit /\ ceiling > minRadius + 100

\* currentMaxRadius *= 0.98, rounded down to a hundredth of a pixel
ReduceRadius(ceiling) == (ceiling * 98) \div 100

\* the values currentMaxRadius can take in a run that starts at `ceiling`
RECURSIVE Ceilings(_, _)
Ceilings(ceiling, minRadius) ==
    IF ceiling > minRadius + 100
    THEN {ceiling} \cup Ceilings(ReduceRadius(ceiling), minRadius)
    ELSE {ceiling}

\* every <<run, position, radius>> a run can propose
Proposals ==
    UNION { {c} \X generateRandomPosition(Constraints(Runs[c]))
                \X UNION { RandomRadius(Runs[c].minRadius, ce) :
                             ce \in Ceilings(Runs[c].maxRadius,
                                             Runs[c].minRadius) } :
            c \in DOMAIN Runs }

\* determineCircleColor's <<inPixels, totalPixels>> for every candidate a run
\* can propose that is inside the canvas bounds; the empty function joined
\* with @@ makes TLC tabulate the function once
PixelCounts ==
    << >> @@
    [p \in Proposals |->
        IF OutOfBounds(p[2].x, p[2].y, p[3], Constraints(Runs[p[1]]))
        THEN <<0, 0>>
        ELSE CountPixels(p[2].x, p[2].y, p[3], Maps[p[1]],
                         Runs[p[1]].width \div 100,
                         Runs[p[1]].height \div 100)]

\* the call of determineCircleColor in the loop body
determineCircleColor(position, radius) ==
    LET counts == PixelCounts[<<cfg, position, radius>>]
    IN  ColorOfRatio(counts[1], counts[2], Options.tolerance,
                     Options.onColor, Options.offColor)

\* the history variables after a loop body that proposed `radius`
Count(n) == IF n < IterationsCap THEN n + 1 ELSE n

NoCandidate ==
    [proposed |-> FALSE, radius |-> 0, ceiling |-> 0, valid |-> FALSE,
     inPixels |-> 0, totalPixels |-> 0, color |-> "null"]

Candidate(radius, valid, counts, color) ==
    [proposed |-> TRUE, radius |-> radius, ceiling |-> currentMaxRadius,
     valid |-> valid, inPixels |-> counts[1], totalPixels |-> counts[2],
     color |-> color]

\* a variant of EndOfBody that reduces the radius and keeps the count
EndOfBodyKeepsCount(att) ==
    /\ attempts' = att
    /\ currentMaxRadius' =
           IF att > FailureLimit /\ currentMaxRadius > Options.minRadius + 100
           THEN (currentMaxRadius * 98) \div 100
           ELSE currentMaxRadius

\* the end of the loop body: the radius reduction, given attempts after the
\* accept / reject branches
EndOfBody(att) ==
    IF Struggling(att, currentMaxRadius, Options.minRadius)
    THEN /\ currentMaxRadius' = ReduceRadius(currentMaxRadius)
         /\ attempts' = 0
    ELSE /\ currentMaxRadius' = currentMaxRadius
         /\ attempts' = att

Init ==
    /\ cfg \in DOMAIN Runs
    /\ pc = "loop"
    /\ circles = << >>
    /\ attempts = 0
    /\ currentMaxRadius = Options.maxRadius
    /\ iterations = 0
    /\ last = NoCandidate
    /\ OthersIdle

\* a loop body whose candidate is valid and gets a colour
Accept(position, radius) ==
    LET color == determineCircleColor(position, radius)
    IN  /\ pc = "loop"
        /\ LoopCondition(attempts, Options.maxAttempts)
        /\ isValidPlacement(position.x, position.y, radius, circles,
                            Constraints(Options))
        /\ ~SamplingDiverges(radius)
        /\ color # "null"
        /\ circles' = Push(circles, [x |-> position.x, y |-> position.y,
                                     radius |-> radius, color |-> color])
        /\ EndOfBody(0)
        /\ iterations' = Count(iterations)
        /\ last' = Candidate(radius, TRUE,
                             PixelCounts[<<cfg, position, radius>>], color)
        /\ UNCHANGED <<cfg, pc>>

\* a variant of Reject that counts failed validations only
RejectColorUncounted(position, radius) ==
    LET valid  == isValidPlacement(position.x, position.y, radius, circles,
                                   Constraints(Options))
        counts == IF valid THEN PixelCounts[<<cfg, position, radius>>]
                           ELSE <<0, 0>>
        color  == IF valid THEN determineCircleColor(position, radius)
                           ELSE "null"
    IN  /\ pc = "loop"
        /\ LoopCondition(attempts, Options.maxAttempts)
        /\ valid => ~SamplingDiverges(radius)
        /\ color = "null"
        /\ EndOfBody(IF valid THEN attempts ELSE attempts + 1)
        /\ iterations' = Count(iterations)
        /\ last' = Candidate(radius, valid, counts, color)
        /\ UNCHANGED <<cfg, pc, circles>>

\* a loop body whose candidate fails validation, or is valid and gets no colour
Reject(position, radius) ==
    LET valid  == isValidPlacement(position.x, position.y, radius, circles,
                                   Constraints(Options))
        counts == IF valid THEN PixelCounts[<<cfg, position, radius>>]
                           ELSE <<0, 0>>
        color  == IF valid THEN determineCircleColor(position, radius)
                           ELSE "null"
    IN  /\ pc = "loop"
        /\ LoopCondition(attempts, Options.maxAttempts)
        /\ valid => ~SamplingDiverges(radius)
        /\ color = "null"
        /\ EndOfBody(attempts + 1)
        /\ iterations' = Count(iterations)
        /\ last' = Candidate(radius, valid, counts, color)
        /\ UNCHANGED <<cfg, pc, circles>>

\* a loop body whose candidate is valid and has radius 0: the call of
\* determineCircleColor does not return
Diverge(position, radius) ==
    /\ pc = "loop"
    /\ LoopCondition(attempts, Options.maxAttempts)
    /\ isValidPlacement(position.x, position.y, radius, circles,
                        Constraints(Options))
    /\ SamplingDiverges(radius)
    /\ pc' = "classifying"
    /\ iterations' = Count(iterations)
    /\ last' = Candidate(radius, TRUE, <<0, 0>>, "null")
    /\ UNCHANGED <<cfg, circles, attempts, currentMaxRadius>>

\* the loop condition is false: return circles
Return ==
    /\ pc = "loop"
    /\ ~LoopCondition(attempts, Options.maxAttempts)
    /\ pc' = "done"
    /\ UNCHANGED <<cfg, circles, attempts, currentMaxRadius, iterations, last>>

\* the candidates a loop body can draw
Positions == generateRandomPosition(Constraints(Options))
Radii == RandomRadius(Options.minRadius, currentMaxRadius)

PackIdle ==
    /\ cfg = 1 /\ pc = "done" /\ circles = << >> /\ attempts = 0
    /\ currentMaxRadius = 0 /\ iterations = 0 /\ last = NoCandidate

Next ==
    \/ \E position \in Positions, radius \in Radii :
          Accept(position, radius) /\ UNCHANGED otherVars
    \/ \E position \in Positions, radius \in Radii :
          Reject(position, radius) /\ UNCHANGED otherVars
    \/ \E position \in Positions, radius \in Radii :
          Diverge(position, radius) /\ UNCHANGED otherVars
    \/ Return /\ UNCHANGED otherVars

Spec == Init /\ [][Next]_allVars

----------------------------------------------------------------------------
(* getLuminance and CanvasUtils.createLuminanceMap                          *)
(*                                                                         *)
(* Luminance and thresholds are integers in ten-thousandths.  Math.pow of  *)
(* sRGBtoLin is tabulated for the channel values the model paints with,    *)
(* rounded to a ten-thousandth; the weighted sum is kept unrounded, in     *)
(* units of 10^-8.                                                         *)

\* the channel values (0 .. 255) the text canvas is painted with
Channels == {0, 10, 11, 128, 255}

\* Math.pow((channel + 0.055) / 1.055, 2.4) for channel = c / 255
Pow24 == [c \in Channels |->
            CASE c = 0   -> 8
              [] c = 10  -> 30
              [] c = 11  -> 33
              [] c = 128 -> 2159
              [] c = 255 -> 10000]

\* sRGBtoLin(c / 255): c / 255 <= 0.04045 is c * 100000 <= 1031475, and
\* (c / 255) / 12.92 is c / 3294.6
sRGBtoLin(c) ==
    IF c * 100000 <= 1031475 THEN (c * 100000) \div 32946 ELSE Pow24[c]

\* Y of getLuminance, in units of 10^-8
getLuminance(r, g, b) ==
    2126 * sRGBtoLin(r) + 7152 * sRGBtoLin(g) + 722 * sRGBtoLin(b)

\* a variant of IsText without the inversion for dark text
IsTextNotInverted(r, g, b, luminanceThreshold) ==
    getLuminance(r, g, b) > luminanceThreshold * 10000

\* getLuminance(r, g, b) < luminanceThreshold
IsText(r, g, b, luminanceThreshold) ==
    getLuminance(r, g, b) < luminanceThreshold * 10000

\* the text canvas: CanvasWidth x CanvasHeight pixels
CanvasWidth == 2
CanvasHeight == 1

\* the colours a pixel of the text canvas can have
PixelColors ==
    { <<0, 0, 0>>, <<10, 11, 128>>, <<0, 255, 0>>, <<255, 255, 255>> }

\* getImageData(...).data of a canvas with the given pixels: r, g, b, a
ImageBytes(pixelSeq) ==
    [i \in 1 .. 4 * Len(pixelSeq) |->
        IF i % 4 = 0 THEN 255 ELSE pixelSeq[(i - 1) \div 4 + 1][((i - 1) % 4) + 1]]

\* createLuminanceMap is called at most MaxMaps times on one canvas
MaxMaps == 2

\* the thresholds createLuminanceMap is called with
Thresholds == {0, 1, 30, 2159, 5000, 7152, 10000, 12000}

\* luminanceMap[y][x] as createLuminanceMap fills it (data is 0-based)
createLuminanceMap(data, luminanceThreshold) ==
    [y \in 0 .. CanvasHeight - 1 |->
        [x \in 0 .. CanvasWidth - 1 |->
            LET idx == (y * CanvasWidth + x) * 4
            IN  IsText(data[idx + 1], data[idx + 2], data[idx + 3],
                       luminanceThreshold)]]

LumInit ==
    /\ imageData \in { ImageBytes(ps) :
                          ps \in [1 .. CanvasWidth * CanvasHeight -> PixelColors] }
    /\ luminanceMaps = << >>
    /\ PackIdle /\ LumRestIdle

\* one call of createLuminanceMap on the canvas
CreateMap(luminanceThreshold) ==
    /\ Cardinality(DOMAIN luminanceMaps) < MaxMaps
    /\ luminanceThreshold \notin DOMAIN luminanceMaps
    /\ luminanceMaps' = luminanceMaps @@
           (luminanceThreshold :> createLuminanceMap(imageData, luminanceThreshold))
    /\ UNCHANGED imageData

LumNext ==
    \E luminanceThreshold \in Thresholds :
        CreateMap(luminanceThreshold) /\ UNCHANGED lumRest

LumSpec == LumInit /\ [][LumNext]_allVars

----------------------------------------------------------------------------
(* TextProcessor: splitIntoWords, isMultiLine, calculateOptimalFontSize,    *)
(* renderText, in the order generate calls them.                            *)
(*                                                                         *)
(* A string is a sequence of characters.  Font sizes and the region are in *)
(* hundredths of a pixel; `size * 0.95` is rounded down to a hundredth.    *)
(* The canvas font is a record: every character is charWidth hundredths of *)
(* the font size wide, the bounding box rises `ascent` and falls `descent` *)
(* hundredths of the font size; 0 stands for a metric the canvas does not  *)
(* report (a falsy value in `a || b`).                                     *)

\* the longest text
MaxLen == 4

\* `while (adjustedFontSize > 20)`, in hundredths
MinFontSize == 2000

Characters == {"A", "B", " "}

\* what \s matches and trim removes
IsSpace(c) == c = " "

Texts == UNION { [1 .. n -> Characters] : n \in 0 .. MaxLen }

RECURSIVE TrimStart(_)
TrimStart(str) ==
    IF str # << >> /\ IsSpace(Head(str)) THEN TrimStart(Tail(str)) ELSE str

RECURSIVE TrimEnd(_)
TrimEnd(str) ==
    IF str # << >> /\ IsSpace(str[Len(str)])
    THEN TrimEnd(SubSeq(str, 1, Len(str) - 1))
    ELSE str

\* String.prototype.trim
Trim(str) == TrimEnd(TrimStart(str))

\* the index of the first whitespace of str, or 0
RECURSIVE FirstSpace(_, _)
FirstSpace(str, i) ==
    IF i > Len(str) THEN 0
    ELSE IF IsSpace(str[i]) THEN i ELSE FirstSpace(str, i + 1)

\* str.split(/\s+/): the pieces between the runs of whitespace, empty pieces
\* at the ends included
RECURSIVE Split(_)
Split(str) ==
    LET i == FirstSpace(str, 1)
    IN  IF i = 0 THEN <<str>>
        ELSE <<SubSeq(str, 1, i - 1)>>
                 \o Split(TrimStart(SubSeq(str, i, Len(str))))

\* a variant of splitIntoWords that does not trim
splitUntrimmed(str) == Split(str)

splitIntoWords(str) == Split(Trim(str))

isMultiLine(str) == Len(splitIntoWords(str)) > 1

\* the fonts of the canvas: one without bounding-box metrics, one with
Fonts ==
    << [charWidth |-> 60, ascent |-> 0, descent |-> 0],
       [charWidth |-> 50, ascent |-> 72, descent |-> 21] >>

\* maxTextWidth, maxTextHeight, fontSize and the font generate passes
FitCases ==
    << \* 1: a region everything fits in
       [maxWidth |-> 100000, maxHeight |-> 100000,
        initialFontSize |-> 30000, font |-> 1],
       \* 2: a region nothing fits in, 21 px
       [maxWidth |-> 0, maxHeight |-> 0, initialFontSize |-> 2100, font |-> 1],
       \* 3: a region nothing fits in, 20 px
       [maxWidth |-> 0, maxHeight |-> 0, initialFontSize |-> 2000, font |-> 2],
       \* 4: 60 x 45 px, 40 px
       [maxWidth |-> 6000, maxHeight |-> 4500,
        initialFontSize |-> 4000, font |-> 2],
       \* 5: 200 x 100 px, the default 300 px
       [maxWidth |-> 20000, maxHeight |-> 10000,
        initialFontSize |-> 30000, font |-> 1],
       \* 6: 12 x 12 px, 10 px
       [maxWidth |-> 1200, maxHeight |-> 1200,
        initialFontSize |-> 1000, font |-> 2] >>

Case == FitCases[fitCase]

\* measureText(str).width at the font size, times 100
MeasureWidth(str, size, font) == Len(str) * size * font.charWidth

Widest(ws, size, font) ==
    LET widths == { MeasureWidth(ws[i], size, font) : i \in DOMAIN ws }
    IN  CHOOSE w \in widths : \A v \in widths : v <= w

\* `metric || adjustedFontSize * fallback`, times 100
MetricOr(metric, size, fallback) ==
    IF metric * size # 0 THEN metric * size ELSE size * fallback

\* textWidth and textHeight of one measurement, times 100
TextWidth(str, ws, multi, size, font) ==
    IF multi THEN Widest(ws, size, font) ELSE MeasureWidth(str, size, font)

TextHeight(ws, multi, size, font) ==
    IF multi THEN Len(ws) * size * 120
    ELSE MetricOr(font.ascent, size, 70) + MetricOr(font.descent, size, 30)

\* textWidth <= maxWidth && textHeight <= maxHeight
Fits(str, ws, multi, size, c) ==
    /\ TextWidth(str, ws, multi, size, Fonts[c.font]) <= c.maxWidth * 100
    /\ TextHeight(ws, multi, size, Fonts[c.font]) <= c.maxHeight * 100

\* a variant of ShrinkFont that takes 10% off
ShrinkFontTenth(size) == (size * 90) \div 100

\* adjustedFontSize *= 0.95
ShrinkFont(size) == (size * 95) \div 100

FitInit ==
    /\ text \in Texts
    /\ fitCase \in DOMAIN FitCases
    /\ fitPc = "fit"
    /\ words = << >>
    /\ fitIsMultiLine = FALSE
    /\ adjustedFontSize = 0
    /\ tried = {}
    /\ logged = FALSE
    /\ drawn = << >>
    /\ PackIdle /\ FitRestIdle

\* calculateOptimalFontSize up to the loop
StartFit ==
    /\ fitPc = "fit"
    /\ words' = splitIntoWords(text)
    /\ fitIsMultiLine' = (Len(splitIntoWords(text)) > 1)
    /\ adjustedFontSize' = Case.initialFontSize
    /\ fitPc' = "measure"
    /\ UNCHANGED <<text, fitCase, tried, logged, drawn>>

\* a loop body that measures a text that fits: break
MeasureFits ==
    /\ fitPc = "measure"
    /\ Fits(text, words, fitIsMultiLine, adjustedFontSize, Case)
    /\ tried' = tried \cup {<<adjustedFontSize, TRUE>>}
    /\ fitPc' = "return"
    /\ UNCHANGED <<text, fitCase, words, fitIsMultiLine, adjustedFontSize,
                   logged, drawn>>

\* a loop body that measures a text that does not fit: shrink, and test
\* the loop condition
MeasureTooBig ==
    /\ fitPc = "measure"
    /\ ~Fits(text, words, fitIsMultiLine, adjustedFontSize, Case)
    /\ tried' = tried \cup {<<adjustedFontSize, FALSE>>}
    /\ adjustedFontSize' = ShrinkFont(adjustedFontSize)
    /\ fitPc' = IF ShrinkFont(adjustedFontSize) > MinFontSize
                THEN "measure" ELSE "return"
    /\ UNCHANGED <<text, fitCase, words, fitIsMultiLine, logged, drawn>>

\* return adjustedFontSize
ReturnFontSize ==
    /\ fitPc = "return"
    /\ fitPc' = "log"
    /\ UNCHANGED <<text, fitCase, words, fitIsMultiLine, adjustedFontSize,
                   tried, logged, drawn>>

\* _logGenerationInfo asks TextProcessor.isMultiLine(text)
LogGenerationInfo ==
    /\ fitPc = "log"
    /\ logged' = isMultiLine(text)
    /\ fitPc' = "render"
    /\ UNCHANGED <<text, fitCase, words, fitIsMultiLine, adjustedFontSize,
                   tried, drawn>>

\* renderText: the text as it is for one word, else one fillText per word
renderText ==
    /\ fitPc = "render"
    /\ drawn' = IF Len(splitIntoWords(text)) = 1
                THEN <<text>> ELSE splitIntoWords(text)
    /\ fitPc' = "end"
    /\ UNCHANGED <<text, fitCase, words, fitIsMultiLine, adjustedFontSize,
                   tried, logged>>

FitNext ==
    \/ StartFit /\ UNCHANGED fitRest
    \/ MeasureFits /\ UNCHANGED fitRest
    \/ MeasureTooBig /\ UNCHANGED fitRest
    \/ ReturnFontSize /\ UNCHANGED fitRest
    \/ LogGenerationInfo /\ UNCHANGED fitRest
    \/ renderText /\ UNCHANGED fitRest

FitSpec == FitInit /\ [][FitNext]_allVars

----------------------------------------------------------------------------
(* The constructor of ColorVisionGenerator and ColorPalettes.getPalette.    *)
(* Of the options only onColor, offColor and palette are kept; a key the    *)
(* caller did not pass is "absent", and "null" and "undefined" stand for    *)
(* the JavaScript values.                                                   *)

\* three of the entries of the catalog
COLOR_PALETTES ==
    [default      |-> [onColor |-> "#FF6B35", offColor |-> "#4ECDC4"],
     protanopia   |-> [onColor |-> "#8B0000", offColor |-> "#90EE90"],
     deuteranopia |-> [onColor |-> "#D2691E", offColor |-> "#6B8E23"]]

\* the properties every object literal inherits whose names are lower case
ObjectPrototype == {"constructor", "__proto__"}

\* the palette names the constructor is called with, and their
\* toLowerCase(); "" is the empty string
toLowerCase ==
    [default |-> "default", Default |-> "default",
     protanopia |-> "protanopia", PROTANOPIA |-> "protanopia",
     deuteranopia |-> "deuteranopia", nosuch |-> "nosuch",
     Unknown |-> "unknown", constructor |-> "constructor",
     __proto__ |-> "__proto__"]

\* the values null and undefined where an object can stand
Null == [type |-> "null"]
Undefined == [type |-> "undefined"]

\* COLOR_PALETTES[key]: an own entry, an inherited property (an object or a
\* function without onColor and offColor), or undefined
Property(key) ==
    IF key \in DOMAIN COLOR_PALETTES THEN COLOR_PALETTES[key]
    ELSE IF key \in ObjectPrototype
         THEN [onColor |-> "undefined", offColor |-> "undefined"]
         ELSE Undefined

\* getPalette: `COLOR_PALETTES[paletteName.toLowerCase()] || null`
getPalette(paletteName) ==
    LET palette == Property(toLowerCase[paletteName])
    IN  IF palette = Undefined THEN Null ELSE palette

\* the options a caller passes
CallerOptions ==
    [onColor : {"absent", "#111111"}, offColor : {"absent", "#222222"},
     palette : {"absent", "null", ""} \cup DOMAIN toLowerCase]

\* { ...DEFAULT_OPTIONS, ...options }
Merged(options) ==
    [onColor  |-> IF options.onColor = "absent"
                  THEN DEFAULT_OPTIONS.onColor ELSE options.onColor,
     offColor |-> IF options.offColor = "absent"
                  THEN DEFAULT_OPTIONS.offColor ELSE options.offColor,
     palette  |-> IF options.palette = "absent"
                  THEN "null" ELSE options.palette]

\* `if (this.options.palette)`: null and "" are falsy
Truthy(palette) == palette \notin {"null", ""}

CtorInit ==
    /\ ctorArgs \in CallerOptions
    /\ thisOptions = << >>
    /\ warnings = << >>
    /\ ctorPc = "new"
    /\ PackIdle /\ CtorRestIdle

\* this.options = { ...DEFAULT_OPTIONS, ...options }
MergeOptions ==
    /\ ctorPc = "new"
    /\ thisOptions' = Merged(ctorArgs)
    /\ ctorPc' = "palette"
    /\ UNCHANGED <<ctorArgs, warnings>>

\* no palette was asked for
NoPalette ==
    /\ ctorPc = "palette"
    /\ ~Truthy(thisOptions.palette)
    /\ ctorPc' = "constructed"
    /\ UNCHANGED <<ctorArgs, thisOptions, warnings>>

\* getPalette returned a palette: take its colours
ApplyPalette ==
    /\ ctorPc = "palette"
    /\ Truthy(thisOptions.palette)
    /\ getPalette(thisOptions.palette) # Null
    /\ thisOptions' =
           [thisOptions EXCEPT
              !.onColor = getPalette(thisOptions.palette).onColor,
              !.offColor = getPalette(thisOptions.palette).offColor]
    /\ ctorPc' = "constructed"
    /\ UNCHANGED <<ctorArgs, warnings>>

\* getPalette returned null: console.warn
WarnPalette ==
    /\ ctorPc = "palette"
    /\ Truthy(thisOptions.palette)
    /\ getPalette(thisOptions.palette) = Null
    /\ warnings' = Append(warnings, thisOptions.palette)
    /\ ctorPc' = "constructed"
    /\ UNCHANGED <<ctorArgs, thisOptions>>

CtorNext ==
    \/ MergeOptions /\ UNCHANGED ctorRest
    \/ NoPalette /\ UNCHANGED ctorRest
    \/ ApplyPalette /\ UNCHANGED ctorRest
    \/ WarnPalette /\ UNCHANGED ctorRest

CtorSpec == CtorInit /\ [][CtorNext]_allVars

----------------------------------------------------------------------------
(* CirclePlacer.determineCircleColor, one value of dy at a time, called     *)
(* MaxCalls times with the same arguments by one run of the packing loop.   *)

\* how often the classifier is called with the same arguments
MaxCalls == 2

\* the runs whose candidates the classifier is called with
ClassifierRuns == {1, 3, 6, 8, 9, 10}

\* the <<inPixels, totalPixels>> the inner loop adds for the dy of index j
RowCounts(x, y, radius, j, map, mapWidth, mapHeight) ==
    LET s    == SampleSpan(radius)
        py   == SamplePixel(y, j, radius, s)
        kept == { i \in SampleIndices(radius) :
                    /\ InsideCircle(i, j, s)
                    /\ SamplePixel(x, i, radius, s) >= 0
                    /\ SamplePixel(x, i, radius, s) < mapWidth
                    /\ py >= 0
                    /\ py < mapHeight }
    IN  <<Cardinality({ i \in kept : map[py][SamplePixel(x, i, radius, s)] }),
          Cardinality(kept)>>

\* a variant of EntryCounts that starts from the counts of the call before
EntryCountsKept(inBefore, totalBefore) == <<0, totalBefore>>

\* `let inPixels = 0; let totalPixels = 0;`
EntryCounts(inBefore, totalBefore) == <<0, 0>>

ClsInit ==
    /\ cfg \in ClassifierRuns
    /\ pc = "loop"
    /\ circles = << >>
    /\ attempts = 0
    /\ currentMaxRadius = Options.maxRadius
    /\ iterations = 0
    /\ last = NoCandidate
    /\ clsArgs \in { p \in Proposals : p[1] = cfg }
    /\ clsMap = Maps[cfg]
    /\ clsPc = "caller"
    /\ row = 0
    /\ clsInPixels = 0
    /\ clsTotalPixels = 0
    /\ results = << >>
    /\ ClsRestIdle

\* a call of determineCircleColor, up to the loops
EnterClassifier ==
    /\ clsPc = "caller"
    /\ Len(results) < MaxCalls
    /\ clsInPixels' = EntryCounts(clsInPixels, clsTotalPixels)[1]
    /\ clsTotalPixels' = EntryCounts(clsInPixels, clsTotalPixels)[2]
    /\ row' = 0
    /\ clsPc' = "rows"
    /\ UNCHANGED <<clsArgs, clsMap, results>>

\* one pass of the outer loop; with radius 0 the inner loop does not end
SampleRow ==
    LET counts == RowCounts(clsArgs[2].x, clsArgs[2].y, clsArgs[3], row,
                            clsMap, Options.width \div 100,
                            Options.height \div 100)
    IN  /\ clsPc = "rows"
        /\ ~SamplingDiverges(clsArgs[3])
        /\ row \in SampleIndices(clsArgs[3])
        /\ clsInPixels' = clsInPixels + counts[1]
        /\ clsTotalPixels' = clsTotalPixels + counts[2]
        /\ row' = row + 1
        /\ UNCHANGED <<clsArgs, clsMap, clsPc, results>>

\* the loops are over: decide and return
ReturnColor ==
    /\ clsPc = "rows"
    /\ ~SamplingDiverges(clsArgs[3])
    /\ row \notin SampleIndices(clsArgs[3])
    /\ results' = Append(results,
                         ColorOfRatio(clsInPixels, clsTotalPixels, Options.tolerance,
                                      Options.onColor, Options.offColor))
    /\ clsPc' = "caller"
    /\ UNCHANGED <<clsArgs, clsMap, row, clsInPixels, clsTotalPixels>>

ClsNext ==
    \/ EnterClassifier /\ UNCHANGED clsRest
    \/ SampleRow /\ UNCHANGED clsRest
    \/ ReturnColor /\ UNCHANGED clsRest

ClsSpec == ClsInit /\ [][ClsNext]_allVars

----------------------------------------------------------------------------
(* ColorVisionGenerator.generate, called several times.                     *)
(*                                                                         *)
(* generate is an async function without an await: a call runs its whole   *)
(* body before the caller goes on, and a throw inside it rejects the       *)
(* promise it returns.  What the text processor, the rasterizer and the    *)
(* classifier compute is kept abstract here: a luminance map is named by   *)
(* the text it was rendered from, a circle by the map it was classified    *)
(* on, and a loop body accepts or rejects its candidate.                   *)

Invocations == {1, 2}

Instances == {1, 2}

\* this.options of the generators, as their constructors left them
InstanceOptions ==
    << [format |-> "png", maxAttempts |-> 1, minRadius |-> 300,
        maxRadius |-> 2000],
       [format |-> "svg", maxAttempts |-> 2, minRadius |-> 300,
        maxRadius |-> 2000] >>

\* the texts generate is called with
GenTexts == {"A", "B"}

\* the canvas has room for MaxCircles circles
MaxCircles == 2

\* the frame of an invocation that has not started
NewFrame(t) ==
    [pc |-> "idle", text |-> t, luminanceMap |-> Undefined, circles |-> << >>,
     attempts |-> 0, currentMaxRadius |-> 0]

Pending == [state |-> "pending"]

\* the options of the generator invocation i runs on
OptionsOf(i) == instOptions[instanceOf[i]]

\* a variant of MayStep with a suspension point after every step
MayStepAnyTime(i, started) == TRUE

\* the body of generate has no await: a call starts when no body is
\* executing, and then runs alone until it returns or throws
MayStep(i, started) == IF started THEN running = i ELSE running = 0

GenInit ==
    /\ instanceOf \in [Invocations -> Instances]
    /\ instOptions = InstanceOptions
    /\ currentText = [g \in Instances |-> "undefined"]
    /\ running = 0
    /\ frames \in { [i \in Invocations |-> NewFrame(ts[i])] :
                       ts \in [Invocations -> GenTexts] }
    /\ loggedText = [i \in Invocations |-> "none"]
    /\ accepted = [i \in Invocations |-> 0]
    /\ ioFailed = [i \in Invocations |-> "none"]
    /\ outcome = [i \in Invocations |-> Pending]
    /\ PackIdle /\ GenRestIdle

\* frames with the position (and more) of invocation i changed
Goto(i, to) == [frames EXCEPT ![i].pc = to]

\* generate(text, outputPath) is called: up to the fitted font size
Call(i) ==
    /\ frames[i].pc = "idle"
    /\ MayStep(i, FALSE)
    /\ running' = i
    /\ frames' = Goto(i, "log")
    /\ UNCHANGED <<instanceOf, instOptions, currentText, loggedText, accepted,
                   ioFailed, outcome>>

\* _logGenerationInfo: this.currentText = text
StashText(i) ==
    /\ frames[i].pc = "log"
    /\ MayStep(i, TRUE)
    /\ currentText' = [currentText EXCEPT ![instanceOf[i]] = frames[i].text]
    /\ frames' = Goto(i, "mask")
    /\ UNCHANGED <<instanceOf, instOptions, running, loggedText, accepted,
                   ioFailed, outcome>>

\* the text canvas is rendered and createLuminanceMap returns its map
CreateMask(i) ==
    /\ frames[i].pc = "mask"
    /\ MayStep(i, TRUE)
    /\ frames' = [frames EXCEPT ![i].pc = "pack",
                                ![i].luminanceMap = [of |-> frames[i].text]]
    /\ UNCHANGED <<instanceOf, instOptions, currentText, running, loggedText,
                   accepted, ioFailed, outcome>>

\* _generateCircles up to the loop: its locals, and the log of
\* this.currentText
EnterPack(i) ==
    /\ frames[i].pc = "pack"
    /\ MayStep(i, TRUE)
    /\ loggedText' = [loggedText EXCEPT ![i] = currentText[instanceOf[i]]]
    /\ frames' = [frames EXCEPT ![i].pc = "loop",
                                ![i].circles = << >>,
                                ![i].attempts = 0,
                                ![i].currentMaxRadius = OptionsOf(i).maxRadius]
    /\ UNCHANGED <<instanceOf, instOptions, currentText, running, accepted,
                   ioFailed, outcome>>

\* a loop body that accepts its candidate
PackAccept(i) ==
    /\ frames[i].pc = "loop"
    /\ MayStep(i, TRUE)
    /\ LoopCondition(frames[i].attempts, OptionsOf(i).maxAttempts)
    /\ Len(frames[i].circles) < MaxCircles
    /\ frames' = [frames EXCEPT
                    ![i].circles = Push(frames[i].circles,
                                        [on |-> frames[i].luminanceMap]),
                    ![i].attempts = 0]
    /\ accepted' = [accepted EXCEPT ![i] = accepted[i] + 1]
    /\ UNCHANGED <<instanceOf, instOptions, currentText, running, loggedText,
                   ioFailed, outcome>>

\* a loop body that rejects its candidate, and the radius reduction
PackReject(i) ==
    LET att == frames[i].attempts + 1
        struggling == Struggling(att, frames[i].currentMaxRadius,
                                 OptionsOf(i).minRadius)
    IN  /\ frames[i].pc = "loop"
        /\ MayStep(i, TRUE)
        /\ LoopCondition(frames[i].attempts, OptionsOf(i).maxAttempts)
        /\ frames' = [frames EXCEPT
                        ![i].attempts = IF struggling THEN 0 ELSE att,
                        ![i].currentMaxRadius =
                            IF struggling
                            THEN ReduceRadius(frames[i].currentMaxRadius)
                            ELSE frames[i].currentMaxRadius]
        /\ UNCHANGED <<instanceOf, instOptions, currentText, running,
                       loggedText, accepted, ioFailed, outcome>>

\* the loop ends and _generateCircles returns circles
PackReturn(i) ==
    /\ frames[i].pc = "loop"
    /\ MayStep(i, TRUE)
    /\ ~LoopCondition(frames[i].attempts, OptionsOf(i).maxAttempts)
    /\ frames' = Goto(i, "mkdir")
    /\ UNCHANGED <<instanceOf, instOptions, currentText, running, loggedText,
                   accepted, ioFailed, outcome>>

\* the I/O call an invocation makes after a position, by format: the
\* directory, then canvas.toBuffer for 'png', then fs.writeFileSync
AfterIo(at, format) ==
    CASE at = "mkdir" -> IF format = "svg" THEN "write" ELSE "encode"
      [] at = "encode" -> "write"
      [] at = "write" -> "return"

\* fs.mkdirSync, canvas.toBuffer or fs.writeFileSync returns
IoReturns(i) ==
    /\ frames[i].pc \in {"mkdir", "encode", "write"}
    /\ MayStep(i, TRUE)
    /\ frames' = Goto(i, AfterIo(frames[i].pc, OptionsOf(i).format))
    /\ UNCHANGED <<instanceOf, instOptions, currentText, running, loggedText,
                   accepted, ioFailed, outcome>>

\* a variant of Propagate: the exception is caught and generate goes on
Swallow(i, what) ==
    /\ ioFailed' = [ioFailed EXCEPT ![i] = what]
    /\ frames' = Goto(i, "return")
    /\ UNCHANGED <<outcome, running>>

\* no try / catch on the way: the exception leaves generate, whose promise
\* is rejected with it
Propagate(i, what) ==
    /\ ioFailed' = [ioFailed EXCEPT ![i] = what]
    /\ frames' = Goto(i, "rejected")
    /\ outcome' = [outcome EXCEPT ![i] = [state |-> "rejected", error |-> what]]
    /\ running' = 0

\* fs.mkdirSync, canvas.toBuffer or fs.writeFileSync throws
IoThrows(i) ==
    /\ frames[i].pc \in {"mkdir", "encode", "write"}
    /\ MayStep(i, TRUE)
    /\ Propagate(i, frames[i].pc)
    /\ UNCHANGED <<instanceOf, instOptions, currentText, loggedText, accepted>>

\* generate returns its result
ReturnResult(i) ==
    /\ frames[i].pc = "return"
    /\ MayStep(i, TRUE)
    /\ outcome' = [outcome EXCEPT ![i] =
                      [state |-> "resolved",
                       circleCount |-> Len(frames[i].circles),
                       text |-> frames[i].text]]
    /\ frames' = Goto(i, "resolved")
    /\ running' = 0
    /\ UNCHANGED <<instanceOf, instOptions, currentText, loggedText, accepted,
                   ioFailed>>

GenNext ==
    \/ \E i \in Invocations : Call(i) /\ UNCHANGED genRest
    \/ \E i \in Invocations : StashText(i) /\ UNCHANGED genRest
    \/ \E i \in Invocations : CreateMask(i) /\ UNCHANGED genRest
    \/ \E i \in Invocations : EnterPack(i) /\ UNCHANGED genRest
    \/ \E i \in Invocations : PackAccept(i) /\ UNCHANGED genRest
    \/ \E i \in Invocations : PackReject(i) /\ UNCHANGED genRest
    \/ \E i \in Invocations : PackReturn(i) /\ UNCHANGED genRest
    \/ \E i \in Invocations : IoReturns(i) /\ UNCHANGED genRest
    \/ \E i \in Invocations : IoThrows(i) /\ UNCHANGED genRest
    \/ \E i \in Invocations : ReturnResult(i) /\ UNCHANGED genRest

GenSpec == GenInit /\ [][GenNext]_allVars

----------------------------------------------------------------------------
(* Properties of the packing loop and the region classifier *)

\* distance(a, b) >= a.radius + b.radius + padding, on the squares
Apart(a, b, padding) ==
    LET gap == a.radius + b.radius + padding
    IN  gap <= 0 \/ (a.x - b.x) * (a.x - b.x) + (a.y - b.y) * (a.y - b.y)
                        >= gap * gap

\* distance(c, centre) + c.radius <= limit, on the squares
WithinDisk(c, centerX, centerY, limit) ==
    /\ limit - c.radius >= 0
    /\ (c.x - centerX) * (c.x - centerX) + (c.y - centerY) * (c.y - centerY)
           <= (limit - c.radius) * (limit - c.radius)

WithinMargins(c, o) ==
    /\ o.margin <= c.x - c.radius
    /\ c.x + c.radius <= o.width - o.margin
    /\ o.margin <= c.y - c.radius
    /\ c.y + c.radius <= o.height - o.margin

\* the runs whose map has no text pixel, and those whose map has only text
NoTextRuns ==
    { c \in DOMAIN Runs :
        \A py \in DOMAIN Maps[c] : \A px \in DOMAIN Maps[c][py] : ~Maps[c][py][px] }

AllTextRuns ==
    { c \in DOMAIN Runs :
        \A py \in DOMAIN Maps[c] : \A px \in DOMAIN Maps[c][py] : Maps[c][py][px] }

\* the latest candidate went through determineCircleColor, which returned
Classified == last.proposed /\ last.valid /\ pc # "classifying"

\* inPixels / totalPixels lies strictly between tolerance and 1 - tolerance
InBand(c) ==
    /\ c.inPixels * 1000 > Options.tolerance * c.totalPixels
    /\ c.inPixels * 1000 < (1000 - Options.tolerance) * c.totalPixels

(* C1: in every state of a packing run, every two distinct circles of the   *)
(* circle set are at least a.radius + b.radius + padding apart.             *)
C1_NoOverlap ==
    \A i, j \in 1 .. Len(circles) :
        i # j => Apart(circles[i], circles[j], Options.padding)

\* two circles are placed exactly radius + radius + padding apart
C1_TwoTouching ==
    /\ Len(circles) = 2
    /\ Apart(circles[1], circles[2], Options.padding)
    /\ ~Apart(circles[1], circles[2], Options.padding + 1)

(* C2: every circle of the circle set lies inside the margin-adjusted       *)
(* rectangle and, on a circular plate, inside the inscribed disk of radius  *)
(* min(width, height) / 2 - margin, which is 350 for 800 x 800 with         *)
(* margin 50.                                                               *)
C2_InsideBounds ==
    /\ \A i \in 1 .. Len(circles) :
          /\ WithinMargins(circles[i], Options)
          /\ Options.circular =>
                WithinDisk(circles[i], Options.width \div 2,
                           Options.height \div 2,
                           Min(Options.width, Options.height) \div 2
                               - Options.margin)
    /\ CircleRadius([width |-> 80000, height |-> 80000, margin |-> 5000])
           = 35000

\* a circular plate holds a circle that touches the inscribed disk
C2_CircleTouchesDisk ==
    /\ Options.circular
    /\ \E i \in 1 .. Len(circles) :
          /\ circles[i].x # Options.width \div 2
          /\ ~WithinDisk(circles[i], Options.width \div 2,
                         Options.height \div 2,
                         Min(Options.width, Options.height) \div 2
                             - Options.margin - 1)

(* C3 as stated: the number of loop bodies entered in one run never exceeds *)
(* maxAttempts.                                                             *)
C3_GlobalBudget == iterations <= Options.maxAttempts

(* C3, amended: the loop is bounded by the count of consecutive rejected    *)
(* candidates.  A loop body is entered only while attempts < maxAttempts    *)
(* and leaves attempts <= maxAttempts; an accepted circle and a radius      *)
(* reduction each reset attempts to 0, every other body adds 1; the loop    *)
(* returns only when attempts >= maxAttempts.                               *)
C3_ConsecutiveBudget ==
    [][ /\ (pc = "loop" /\ pc' = "loop") =>
              /\ attempts < Options.maxAttempts
              /\ attempts' <= Options.maxAttempts
              /\ Len(circles') > Len(circles) => attempts' = 0
              /\ currentMaxRadius' # currentMaxRadius => attempts' = 0
              /\ (/\ Len(circles') = Len(circles)
                  /\ currentMaxRadius' = currentMaxRadius)
                     => attempts' = attempts + 1
        /\ pc' = "done" => attempts >= Options.maxAttempts ]_vars

\* more loop bodies than maxAttempts have run and the loop goes on
C3_BudgetExceeded ==
    /\ pc = "loop"
    /\ Options.maxAttempts > 0
    /\ iterations > Options.maxAttempts
    /\ attempts < Options.maxAttempts

(* C4: every run of the packing loop eventually returns its circle set: a   *)
(* run is never in a state that is not Done and that the loop cannot leave. *)
C4_EveryRunReturns == pc = "done" \/ ENABLED Next

(* C5: with maxAttempts = 0 no loop body runs, no candidate is proposed,    *)
(* and the circle set that is returned is empty.                            *)
C5_ZeroBudget ==
    Options.maxAttempts = 0 =>
        /\ pc \in {"loop", "done"}
        /\ iterations = 0
        /\ last = NoCandidate
        /\ circles = << >>

\* a run with maxAttempts = 0 on a circular plate has returned
C5_ZeroBudgetReturned ==
    Options.maxAttempts = 0 /\ Options.circular /\ pc = "done"

(* C6: every proposed radius r satisfies minRadius <= r <= currentMaxRadius *)
(* <= maxRadius, also after radius reductions, and every circle of the      *)
(* circle set has its radius in [minRadius, maxRadius].                     *)
C6_RadiusInRange ==
    /\ currentMaxRadius <= Options.maxRadius
    /\ last.proposed =>
          /\ Options.minRadius <= last.radius
          /\ last.radius <= last.ceiling
          /\ last.ceiling <= Options.maxRadius
    /\ \A i \in 1 .. Len(circles) :
          /\ Options.minRadius <= circles[i].radius
          /\ circles[i].radius <= Options.maxRadius

(* C7: no backtracking: across every step the circle set before the step is *)
(* a prefix of the circle set after it.                                     *)
C7_NoBacktracking ==
    [][ /\ Len(circles') >= Len(circles)
        /\ SubSeq(circles', 1, Len(circles)) = circles ]_vars

\* a run has returned two circles
C7_TwoReturned == pc = "done" /\ Len(circles) = 2

(* C8: with a map that is false everywhere every circle of the circle set   *)
(* has offColor, with a map that is true everywhere every circle has        *)
(* onColor, whatever the tolerance.                                         *)
C8_UniformMask ==
    \A i \in 1 .. Len(circles) :
        /\ cfg \in NoTextRuns => circles[i].color = Options.offColor
        /\ cfg \in AllTextRuns => circles[i].color = Options.onColor

\* a circle is placed on a map that is true everywhere, with tolerance 1
C8_AllTextCircle ==
    cfg \in AllTextRuns /\ Options.tolerance = 1000 /\ Len(circles) >= 1

(* C9: the classifier returns no colour exactly when totalPixels = 0 or the *)
(* ratio inPixels / totalPixels lies strictly between tolerance and         *)
(* 1 - tolerance; otherwise it returns onColor if the ratio is above 0.5    *)
(* and offColor if not.  With tolerance 0 a circle whose samples include    *)
(* both map values gets no colour.                                          *)
C9_ClassifierRule ==
    Classified =>
        /\ last.color = "null" <=> (last.totalPixels = 0 \/ InBand(last))
        /\ last.color # "null" =>
              last.color = IF 2 * last.inPixels > last.totalPixels
                           THEN Options.onColor ELSE Options.offColor
        /\ (/\ Options.tolerance = 0
            /\ 0 < last.inPixels
            /\ last.inPixels < last.totalPixels) => last.color = "null"

\* with tolerance 0, a valid circle whose samples include both map values
\* was classified
C9_MixedCircleClassified ==
    /\ Classified
    /\ Options.tolerance = 0
    /\ 0 < last.inPixels
    /\ last.inPixels < last.totalPixels

\* the latest candidate was classified with a ratio of exactly 0.5 and got a
\* colour
HalfAndColoured ==
    /\ Classified
    /\ last.totalPixels > 0
    /\ 2 * last.inPixels = last.totalPixels
    /\ last.color # "null"

(* C10 as stated: a circle whose ratio is exactly 0.5 and that is not       *)
(* rejected by the tolerance band gets onColor.                             *)
C10_HalfIsOn == HalfAndColoured => last.color = Options.onColor

(* C10, amended: a circle whose ratio is exactly 0.5 and that is not        *)
(* rejected by the tolerance band gets offColor, 0.5 > 0.5 being false.     *)
C10_HalfIsOff == HalfAndColoured => last.color = Options.offColor

\* a circle with ratio exactly 0.5 was accepted
C10_HalfAccepted == HalfAndColoured /\ Len(circles) = 1

\* the pixels of the canvas
CanvasPixels ==
    { <<y, x>> : y \in 0 .. CanvasHeight - 1, x \in 0 .. CanvasWidth - 1 }

(* C11: for one pixel buffer and thresholds t1 <= t2, every pixel that is   *)
(* true in the map built with t1 is true in the map built with t2.          *)
C11_ThresholdMonotonic ==
    \A t1, t2 \in DOMAIN luminanceMaps :
        t1 <= t2 =>
            \A p \in CanvasPixels :
                luminanceMaps[t1][p[1]][p[2]] => luminanceMaps[t2][p[1]][p[2]]

\* two maps of one buffer: the higher threshold kept a text pixel and added
\* one
C11_PixelAdded ==
    \E t1, t2 \in DOMAIN luminanceMaps :
        /\ t1 < t2
        /\ \E p \in CanvasPixels :
              luminanceMaps[t1][p[1]][p[2]] /\ luminanceMaps[t2][p[1]][p[2]]
        /\ \E p \in CanvasPixels :
              ~luminanceMaps[t1][p[1]][p[2]] /\ luminanceMaps[t2][p[1]][p[2]]

\* an iteration of the packing loop that ran to its end
Iteration == pc = "loop" /\ pc' = "loop"

\* the circle passes the tests of isValidPlacement against the set
PassesValidation(c, set) ==
    /\ WithinMargins(c, Options)
    /\ Options.circular =>
           WithinDisk(c, Options.width \div 2, Options.height \div 2,
                      Min(Options.width, Options.height) \div 2
                          - Options.margin)
    /\ \A i \in 1 .. Len(set) : Apart(c, set[i], Options.padding)

\* the counter is attempts + 1 before the radius reduction, which may reset it
CountedOnce ==
    \/ attempts' = attempts + 1 /\ currentMaxRadius' = currentMaxRadius
    \/ /\ attempts + 1 > FailureLimit
       /\ attempts' = 0
       /\ currentMaxRadius' # currentMaxRadius

(* C18: an iteration of the packing loop either accepts: the candidate      *)
(* passes validation and classification gives a colour, exactly one circle  *)
(* with the candidate's position, radius and colour is appended and the     *)
(* counter becomes 0; or rejects: validation fails or classification gives  *)
(* no colour, the circle set is unchanged and the counter grows by exactly  *)
(* 1 before the radius reduction.  Only valid candidates are classified.    *)
C18_AcceptOrReject ==
    [][ Iteration =>
          /\ \/ /\ Len(circles') = Len(circles) + 1
                /\ circles' = Append(circles, circles'[Len(circles')])
                /\ PassesValidation(circles'[Len(circles')], circles)
                /\ last'.valid
                /\ circles'[Len(circles')].radius = last'.radius
                /\ circles'[Len(circles')].color = last'.color
                /\ last'.color # "null"
                /\ last'.color =
                       determineCircleColor([x |-> circles'[Len(circles')].x,
                                             y |-> circles'[Len(circles')].y],
                                            last'.radius)
                /\ attempts' = 0
                /\ currentMaxRadius' = currentMaxRadius
             \/ /\ circles' = circles
                /\ ~last'.valid \/ last'.color = "null"
                /\ CountedOnce
          /\ ~last'.valid =>
                /\ last'.color = "null"
                /\ last'.totalPixels = 0 ]_vars

\* after an accepted circle, a valid candidate was classified and rejected
C18_AcceptedThenRejected ==
    /\ pc = "loop"
    /\ Len(circles) >= 1
    /\ last.valid
    /\ last.color = "null"
    /\ last.totalPixels > 0
    /\ attempts = 1

(* C19: currentMaxRadius changes only in the radius reduction at the end of *)
(* an iteration, which happens exactly when the counter is above 1000 and   *)
(* currentMaxRadius > minRadius + 1; it multiplies currentMaxRadius by      *)
(* 0.98, sets the counter to 0 and leaves the circle set as it is.          *)
C19_RadiusReduction ==
    [][ /\ currentMaxRadius' # currentMaxRadius =>
              /\ Iteration
              /\ attempts + 1 > FailureLimit
              /\ currentMaxRadius > Options.minRadius + 100
              /\ 100 * currentMaxRadius' <= 98 * currentMaxRadius
              /\ 98 * currentMaxRadius < 100 * (currentMaxRadius' + 1)
              /\ attempts' = 0
              /\ circles' = circles
        /\ (/\ Iteration
            /\ circles' = circles
            /\ attempts + 1 > FailureLimit
            /\ currentMaxRadius > Options.minRadius + 100)
               => currentMaxRadius' # currentMaxRadius ]_vars

\* the radius ceiling was reduced in a run that holds a circle
C19_ReducedWithCircle ==
    /\ pc = "loop"
    /\ Len(circles) = 1
    /\ currentMaxRadius < Options.maxRadius
    /\ attempts = 0

\* the radius ceiling can be reduced no further
AnnealingComplete == currentMaxRadius <= Options.minRadius + 100

(* C21: with an integer maxAttempts > 1000 the packing loop exits only with *)
(* the counter equal to maxAttempts and currentMaxRadius <= minRadius + 1:  *)
(* while the ceiling is above minRadius + 1 the counter is reset before it  *)
(* reaches maxAttempts, so the loop never returns before the radius         *)
(* reduction has run to its end.                                            *)
C21_ExitAfterAnnealing ==
    Options.maxAttempts > FailureLimit =>
        /\ pc = "done" =>
              /\ attempts = Options.maxAttempts
              /\ AnnealingComplete
        /\ ~AnnealingComplete =>
              /\ attempts <= FailureLimit
              /\ attempts < Options.maxAttempts
              /\ pc # "done"

\* a run with a budget above 1000 returned after two radius reductions
C21_ReturnedAfterReductions ==
    /\ pc = "done"
    /\ Options.maxAttempts > FailureLimit
    /\ currentMaxRadius < (Options.maxRadius * 98) \div 100
    /\ attempts = Options.maxAttempts

(* C22: with maxAttempts <= 1000 the radius is never reduced:               *)
(* currentMaxRadius is maxRadius in every state; the counter is the number  *)
(* of candidates rejected since the last accepted circle or the start, a    *)
(* loop body runs only while it is below maxAttempts, and the loop returns  *)
(* when it is maxAttempts.                                                  *)
C22_NoAnnealing ==
    /\ [](Options.maxAttempts <= FailureLimit =>
             /\ currentMaxRadius = Options.maxRadius
             /\ attempts <= Options.maxAttempts
             /\ pc = "done" => attempts = Options.maxAttempts)
    /\ [][ Options.maxAttempts <= FailureLimit =>
             /\ Iteration =>
                   /\ attempts < Options.maxAttempts
                   /\ circles' = circles => attempts' = attempts + 1
                   /\ circles' # circles => attempts' = 0
             /\ (pc = "loop" /\ attempts = Options.maxAttempts)
                   => pc' = "done" ]_vars

\* a run with maxAttempts = 1000 returned after 1000 rejections in a row
C22_ReturnedAtFailureLimit ==
    /\ pc = "done"
    /\ Options.maxAttempts = FailureLimit
    /\ attempts = FailureLimit
    /\ last.proposed
    /\ currentMaxRadius = Options.maxRadius

----------------------------------------------------------------------------
(* Properties of the text layout *)

\* the number of words of a text: the maximal runs of non-whitespace
WordCount(str) ==
    Cardinality({ i \in DOMAIN str :
                    ~IsSpace(str[i]) /\ (i = 1 \/ IsSpace(str[i - 1])) })

(* C12: the layout is multi-line exactly when the text has more than one    *)
(* word, and then there is one line per word; "A B" gives 2 lines and "AB"  *)
(* one; the fitter, isMultiLine and the renderer decide alike for every     *)
(* text, leading and trailing whitespace included.                          *)
C12_SameLayout ==
    fitPc = "end" =>
        /\ fitIsMultiLine = (WordCount(text) > 1)
        /\ logged = fitIsMultiLine
        /\ (Len(drawn) > 1) = fitIsMultiLine
        /\ fitIsMultiLine => Len(drawn) = WordCount(text)
        /\ ~fitIsMultiLine => drawn = <<text>>
        /\ text = <<"A", " ", "B">> => Len(drawn) = 2
        /\ text = <<"A", "B">> => Len(drawn) = 1

\* a text of two words after leading whitespace was rendered as two lines
C12_LeadingSpaceTwoLines ==
    /\ fitPc = "end"
    /\ text # << >> /\ IsSpace(text[1])
    /\ WordCount(text) = 2
    /\ Len(drawn) = 2

\* calculateOptimalFontSize has returned adjustedFontSize
FitReturned == fitPc \in {"log", "render", "end"}

\* no measurement of the call found the text fitting
NothingFitted == \A m \in tried : ~m[2]

(* C13: when no candidate size fits the region, the fitter returns the      *)
(* floor 20 or a size at which the text was measured, and never a size that *)
(* was not tried.                                                           *)
C13_FloorOrTried ==
    (FitReturned /\ NothingFitted) =>
        \/ adjustedFontSize = MinFontSize
        \/ \E m \in tried : m[1] = adjustedFontSize

\* the sizes initialFontSize, 0.95 initialFontSize, 0.95^2 initialFontSize, ...
RECURSIVE SizeAt(_)
SizeAt(k) ==
    IF k = 0 THEN Case.initialFontSize ELSE (SizeAt(k - 1) * 95) \div 100

\* the positions of the sequence looked at; the 60th size is below 5% of
\* the initial one
Shrinks == 0 .. 60

\* the text fits the region at the k-th size of the sequence
FitsAt(k) ==
    Fits(text, splitIntoWords(text), Len(splitIntoWords(text)) > 1,
         SizeAt(k), Case)

\* the k-th size is the first one of the sequence that fits
FirstFitAt(k) == FitsAt(k) /\ \A j \in 0 .. k - 1 : ~FitsAt(j)

(* C20: calculateOptimalFontSize returns the first size of the sequence     *)
(* initialFontSize, 0.95 initialFontSize, ... at which the text fits the    *)
(* region, whenever that size is the initial size or is greater than 20; it *)
(* returns initialFontSize when the text fits at once, and a returned size  *)
(* greater than 20 fits the region.                                         *)
C20_FirstFittingSize ==
    FitReturned =>
        /\ \A k \in Shrinks :
              (FirstFitAt(k) /\ (k = 0 \/ SizeAt(k) > MinFontSize))
                  => adjustedFontSize = SizeAt(k)
        /\ FitsAt(0) => adjustedFontSize = Case.initialFontSize
        /\ adjustedFontSize > MinFontSize =>
               Fits(text, splitIntoWords(text),
                    Len(splitIntoWords(text)) > 1, adjustedFontSize, Case)

\* a size above 20 px was returned after at least one reduction
C20_ShrunkToFit ==
    /\ FitReturned
    /\ adjustedFontSize > MinFontSize
    /\ adjustedFontSize < Case.initialFontSize
    /\ <<Case.initialFontSize, FALSE>> \in tried
    /\ <<adjustedFontSize, TRUE>> \in tried

----------------------------------------------------------------------------
(* Properties of the constructor *)

\* the constructor was called with a palette name and has returned
ConstructedWithPalette ==
    ctorPc = "constructed" /\ Truthy(Merged(ctorArgs).palette)

\* the colours the caller configured, or the defaults
ConfiguredColors ==
    [onColor  |-> IF ctorArgs.onColor = "absent"
                  THEN "#FF6B35" ELSE ctorArgs.onColor,
     offColor |-> IF ctorArgs.offColor = "absent"
                  THEN "#4ECDC4" ELSE ctorArgs.offColor]

(* C14: constructing with a palette name that is an entry of the catalog    *)
(* gives the palette's onColor and offColor, whatever colours were passed;  *)
(* with a name that is no entry the construction succeeds with a warning    *)
(* and the colours are the configured ones, or the defaults '#FF6B35' and   *)
(* '#4ECDC4'.                                                               *)
C14_PaletteOrConfigured ==
    ConstructedWithPalette =>
        LET key == toLowerCase[ctorArgs.palette]
        IN  IF key \in DOMAIN COLOR_PALETTES
            THEN /\ thisOptions.onColor = COLOR_PALETTES[key].onColor
                 /\ thisOptions.offColor = COLOR_PALETTES[key].offColor
                 /\ warnings = << >>
            ELSE /\ thisOptions.onColor = ConfiguredColors.onColor
                 /\ thisOptions.offColor = ConfiguredColors.offColor
                 /\ warnings = <<ctorArgs.palette>>

----------------------------------------------------------------------------
(* Properties of repeated classification *)

(* C15: for one mask, circle, tolerance and colour pair, two calls of       *)
(* determineCircleColor return the same colour or the same rejection, and   *)
(* no step of a call changes the mask or the circle set.                    *)
C15_SameResult ==
    [][ /\ clsMap' = clsMap
        /\ circles' = circles
        /\ \A i, k \in DOMAIN results' : results'[i] = results'[k] ]_allVars

\* a circle over text and background was classified twice and rejected
C15_TwiceClassified ==
    /\ Len(results) = 2
    /\ clsPc = "caller"
    /\ 0 < clsInPixels
    /\ clsInPixels < clsTotalPixels
    /\ results[2] = "null"

----------------------------------------------------------------------------
(* Properties of generate *)

\* invocation i has stashed its text in this.currentText
Stashed(i) == frames[i].pc \notin {"idle", "log"}

\* the body of invocation i has started and has neither returned nor thrown
InBody(i) == frames[i].pc \notin {"idle", "resolved", "rejected"}

(* C16 as stated: no step of an invocation writes the currentText another   *)
(* invocation stashed: once an invocation has stashed its text, the         *)
(* this.currentText it wrote keeps that text.                               *)
C16_StashKept ==
    \A i \in Invocations :
        Stashed(i) => currentText[instanceOf[i]] = frames[i].text

(* C16, amended: the mask, the circle set, the failure counter and the      *)
(* radius ceiling are locals of one invocation; this.currentText is a field *)
(* of the generator that every invocation on it overwrites, but a body runs *)
(* to completion before another starts, so between its write and its read  *)
(* of this.currentText an invocation finds its own text there.  Every       *)
(* circle of an invocation was classified on its own map, circleCount       *)
(* counts the circles that invocation accepted, and this.options is never   *)
(* written by generate.                                                     *)
C16_OwnWhileRunning ==
    /\ instOptions = InstanceOptions
    /\ \A i \in Invocations :
          /\ InBody(i) => running = i
          /\ frames[i].pc \in {"mask", "pack"} =>
                 currentText[instanceOf[i]] = frames[i].text
          /\ loggedText[i] \in {"none", frames[i].text}
          /\ \A k \in DOMAIN frames[i].circles :
                 frames[i].circles[k].on = [of |-> frames[i].text]
          /\ Len(frames[i].circles) = accepted[i]
          /\ outcome[i].state = "resolved" =>
                 /\ outcome[i].circleCount = accepted[i]
                 /\ outcome[i].text = frames[i].text

\* two invocations with different texts on one generator have both returned
\* a result with circles
C16_BothResolved ==
    /\ instanceOf[1] = instanceOf[2]
    /\ frames[1].text # frames[2].text
    /\ \A i \in Invocations :
          /\ outcome[i].state = "resolved"
          /\ outcome[i].circleCount > 0
          /\ loggedText[i] = frames[i].text

(* C17: when the encoder or a filesystem call throws during generate, for   *)
(* either format, the promise of generate is rejected with that failure and *)
(* the run stops there: no GenerationResult is returned.                    *)
C17_FailurePropagates ==
    \A i \in Invocations :
        /\ ioFailed[i] # "none" =>
               /\ frames[i].pc = "rejected"
               /\ outcome[i] = [state |-> "rejected", error |-> ioFailed[i]]
        /\ outcome[i].state = "resolved" => ioFailed[i] = "none"

\* the encoder failed for a 'png' run and the write for an 'svg' run
C17_BothFormatsFailed ==
    \E i, k \in Invocations :
        /\ OptionsOf(i).format = "png" /\ ioFailed[i] = "encode"
        /\ OptionsOf(k).format = "svg" /\ ioFailed[k] = "write"
        /\ outcome[i].state = "rejected" /\ outcome[k].state = "rejected"

====
